---- MODULE Spec2Model ----
(***************************************************************************)
(* Model of amazonscraper/client.py: the AmazonClient fetch/retry loop     *)
(* (_get, _check_page, _get_page_html), the multi-schema page extraction   *)
(* (_extract_page and the per-field extractors) and the pagination loop    *)
(* (_get_products).                                                        *)
(*                                                                         *)
(* Texts are sequences of one-character strings, so that strip, replace,   *)
(* int(), float() and the regular expressions are computed, not assumed.   *)
(* A parsed page is modelled by what soup.select returns for each selector *)
(* string the code uses; a product container likewise.                     *)
(***************************************************************************)
EXTENDS Integers, Sequences, FiniteSets, TLC

(***************************************************************************)
(* Bounds of the model.                                                    *)
(***************************************************************************)
MaxTarget == 3      \* largest max_product_nb a caller passes
MaxPages  == 2      \* pages a client fetches successfully over its life
MaxCalls  == 2      \* calls of _get_products on one client

(***************************************************************************)
(* Program constants.                                                      *)
(***************************************************************************)
\* A URL "https://<domain>/<path>" is the record of its domain and of the
\* characters of its path.
_BASE_URL == [domain |-> "www.amazon.com", path |-> <<>>]

_USER_AGENT_LIST ==
    << "Mozilla/5.0 (Linux; Android 7.0; SM-A520F Build/NRD90M; wv) AppleWebKit/537.36 (KHTML, like Gecko) Version/4.0 Chrome/65.0.3325.109 Mobile Safari/537.36",
       "Mozilla/5.0 (Macintosh; Intel Mac OS X 10_13_5) AppleWebKit/537.36 (KHTML, like Gecko) Chrome/67.0.3396.79 Safari/537.36" >>

\* Variant: the schemas in the reverse order
SchemaOrder_Reversed == << "desktop_2", "desktop", "mobile_grid", "mobile" >>

\* The order of CSS_SELECTORS.values(): the order the keys are written in
SchemaOrder == << "mobile", "mobile_grid", "desktop", "desktop_2" >>

CSS_SELECTORS ==
    [ mobile |->
        [ product       |-> "#resultItems > li",
          next_page_url |-> "ul.a-pagination > li.a-last > a[href]" ],
      mobile_grid |->
        [ product       |-> "#grid-atf-content > li > div.s-item-container",
          next_page_url |-> "ul.a-pagination > li.a-last > a[href]" ],
      desktop |->
        [ product       |-> "ul > li.s-result-item > div.s-item-container",
          next_page_url |-> "a#pagnNextLink" ],
      desktop_2 |->
        [ product       |-> "div.s-result-list.sg-row > div.s-result-item",
          next_page_url |-> "li.a-last > a[href]" ] ]

\* Variant: a budget one attempt short
_MAX_TRIAL_REQUESTS_Short == 5 - 1

_MAX_TRIAL_REQUESTS == 5
_WAIT_TIME_BETWEEN_REQUESTS == 1

invalid_keywords ==
    { "Sign in for the best experience",
      "The request could not be satisfied.",
      "Robot Check" }

n_ratings_selectors ==
    << "div.a-row.a-size-small span.a-size-base",
       "div div.sg-row .a-spacing-top-mini span.a-size-small",
       "div.a-column.a-span5.a-span-last > div.a-row.a-spacing-mini > a.a-size-small.a-link-normal.a-text-normal" >>

title_selectors ==
    << "h5 span", "a.s-access-detail-page > h2", "div div.sg-row h5 > span" >>

(***************************************************************************)
(* Python values.  None is its own value; an exception that leaves a       *)
(* function is named by its class.                                         *)
(***************************************************************************)
None     == << "<None>" >>         \* None where a text is expected
NoneUrl  == [none |-> TRUE]         \* None where a URL is expected
NaN      == [nan |-> TRUE]          \* float('nan')
EmptyStr == [empty |-> TRUE]        \* '' where a URL is expected

\* Truth value of a text or None
Truthy(t) == t # None /\ t # <<>>

Digit == { "0", "1", "2", "3", "4", "5", "6", "7", "8", "9" }

DigitVal(c) ==
    CASE c = "0" -> 0 [] c = "1" -> 1 [] c = "2" -> 2 [] c = "3" -> 3
      [] c = "4" -> 4 [] c = "5" -> 5 [] c = "6" -> 6 [] c = "7" -> 7
      [] c = "8" -> 8 [] c = "9" -> 9

Whitespace == { " ", "\n", "\t" }

RECURSIVE LStrip(_)
LStrip(t) ==
    IF t # <<>> /\ Head(t) \in Whitespace THEN LStrip(Tail(t)) ELSE t

RECURSIVE RStrip(_)
RStrip(t) ==
    IF t # <<>> /\ t[Len(t)] \in Whitespace
    THEN RStrip(SubSeq(t, 1, Len(t) - 1))
    ELSE t

\* str.strip()
Strip(t) == RStrip(LStrip(t))

\* str.replace(old, new) for one-character old and new
RECURSIVE Replace(_, _, _)
Replace(t, old, new) ==
    IF t = <<>> THEN <<>>
    ELSE (IF Head(t) = old THEN new ELSE << Head(t) >>) \o Replace(Tail(t), old, new)

AllDigits(t) == \A i \in 1..Len(t) : t[i] \in Digit

RECURSIVE DigitsValue(_)
DigitsValue(t) ==
    IF t = <<>> THEN 0
    ELSE 10 * DigitsValue(SubSeq(t, 1, Len(t) - 1)) + DigitVal(t[Len(t)])

RECURSIVE Pow10(_)
Pow10(n) == IF n = 0 THEN 1 ELSE 10 * Pow10(n - 1)

\* int(text): surrounding whitespace and one sign are accepted, then digits
\* only.  The result is [ok, val]; ok = FALSE stands for ValueError.
PyInt(t) ==
    LET s == Strip(t)
        u == IF s # <<>> /\ Head(s) \in { "+", "-" } THEN Tail(s) ELSE s
    IN  IF u # <<>> /\ AllDigits(u)
        THEN [ ok  |-> TRUE,
               val |-> IF Head(s) = "-" THEN 0 - DigitsValue(u) ELSE DigitsValue(u) ]
        ELSE [ ok |-> FALSE, val |-> 0 ]

\* A decimal number num/den with den a power of ten, in lowest such terms.
RECURSIVE Decimal(_, _)
Decimal(num, den) ==
    IF den > 1 /\ num % 10 = 0 THEN Decimal(num \div 10, den \div 10)
    ELSE [ num |-> num, den |-> den ]

\* Position of the first non-digit of t, or 0.
FirstNonDigit(t) ==
    IF AllDigits(t) THEN 0
    ELSE CHOOSE i \in 1..Len(t) :
            /\ t[i] \notin Digit
            /\ \A j \in 1..(i - 1) : t[j] \in Digit

\* float(text) on unsigned text with at most one non-digit character, which
\* is every text the patterns of _get_rating and _get_prices can capture:
\* digits, digits.digits, digits e digits, digits _ digits.  Anything else
\* (a comma, a blank, a letter, a second separator) is ValueError.
PyFloat(t) ==
    LET p      == FirstNonDigit(t)
        before == SubSeq(t, 1, p - 1)
        after  == SubSeq(t, p + 1, Len(t))
        bad    == [ ok |-> FALSE, val |-> NaN ]
    IN  IF t = <<>> THEN bad
        ELSE IF p = 0 THEN [ ok |-> TRUE, val |-> Decimal(DigitsValue(t), 1) ]
        ELSE IF ~AllDigits(after) THEN bad
        ELSE IF t[p] = "."
             THEN IF before = <<>> /\ after = <<>> THEN bad
                  ELSE [ ok  |-> TRUE,
                         val |-> Decimal(DigitsValue(before) * Pow10(Len(after))
                                            + DigitsValue(after),
                                         Pow10(Len(after))) ]
        ELSE IF t[p] \in { "e", "E" }
             THEN IF before = <<>> \/ after = <<>> THEN bad
                  ELSE [ ok  |-> TRUE,
                         val |-> Decimal(DigitsValue(before) * Pow10(DigitsValue(after)), 1) ]
        ELSE IF t[p] = "_"
             THEN IF before = <<>> \/ after = <<>> THEN bad
                  ELSE [ ok |-> TRUE, val |-> Decimal(DigitsValue(before \o after), 1) ]
        ELSE bad

(***************************************************************************)
(* Regular expressions of the extractors, on texts.                        *)
(***************************************************************************)
\* '\$([\d,]+.\d\d)' matches at i with k characters taken by [\d,]+
PriceMatchAt(t, i, k) ==
    /\ i >= 1 /\ k >= 1 /\ i + k + 3 <= Len(t)
    /\ t[i] = "$"
    /\ \A j \in (i + 1)..(i + k) : t[j] \in Digit \cup { "," }
    /\ t[i + k + 1] # "\n"
    /\ t[i + k + 2] \in Digit
    /\ t[i + k + 3] \in Digit

PriceMatches(t) ==
    { i \in 1..Len(t) : \E k \in 1..Len(t) : PriceMatchAt(t, i, k) }

\* re.search('\$([\d,]+.\d\d)', t).group(1): leftmost match, [\d,]+ greedy
PriceGroup(t) ==
    LET i == CHOOSE a \in PriceMatches(t) : \A b \in PriceMatches(t) : a <= b
        k == CHOOSE a \in 1..Len(t) :
                /\ PriceMatchAt(t, i, a)
                /\ \A b \in 1..Len(t) : PriceMatchAt(t, i, b) => b <= a
    IN  SubSeq(t, i + 1, i + k + 3)

OutOf5 == << " ", "o", "u", "t", " ", "o", "f", " ", "5" >>

\* '(\d.\d) out of 5' matches at i
RatingMatchAt(t, i) ==
    /\ i >= 1 /\ i + 2 + Len(OutOf5) <= Len(t)
    /\ t[i] \in Digit
    /\ t[i + 1] # "\n"
    /\ t[i + 2] \in Digit
    /\ SubSeq(t, i + 3, i + 2 + Len(OutOf5)) = OutOf5

RatingMatches(t) == { i \in 1..Len(t) : RatingMatchAt(t, i) }

\* re.findall(r'/(.*)\)', t): the one match there can be on a one-line text
\* starts at the first '/' that has a ')' after it and ends at the last ')'.
UnitMatches(t) ==
    { i \in 1..Len(t) :
        /\ t[i] = "/"
        /\ \E j \in (i + 1)..Len(t) :
              /\ t[j] = ")"
              /\ \A m \in (i + 1)..(j - 1) : t[m] # "\n" }

UnitGroup(t) ==
    LET i == CHOOSE a \in UnitMatches(t) : \A b \in UnitMatches(t) : a <= b
        j == CHOOSE a \in (i + 1)..Len(t) :
                /\ t[a] = ")"
                /\ \A m \in (i + 1)..(a - 1) : t[m] # "\n"
                /\ \A b \in (a + 1)..Len(t) :
                      t[b] = ")" => \E m \in (i + 1)..(b - 1) : t[m] = "\n"
    IN  SubSeq(t, i + 1, j - 1)

(***************************************************************************)
(* urljoin(base, rel) for a base "https://<domain>/" and a relative        *)
(* reference without scheme, host, dot segments: the path of the result is *)
(* rel, without its leading '/'.                                           *)
(***************************************************************************)
urljoin(base, rel) ==
    [ domain |-> base.domain,
      path   |-> IF rel # <<>> /\ Head(rel) = "/" THEN Tail(rel) ELSE rel ]

\* url.split('/')[-1]: the characters after the last '/'
RECURSIVE LastSegment(_)
LastSegment(t) ==
    IF t = <<>> \/ t[Len(t)] = "/" THEN <<>>
    ELSE LastSegment(SubSeq(t, 1, Len(t) - 1)) \o << t[Len(t)] >>

(***************************************************************************)
(* Field extractors.  A container c gives, for every selector the          *)
(* extractors use, the texts of the elements soup.select returns           *)
(* (c.select), its markup str(c) (c.markup) and its text nodes with the    *)
(* data-a-strike attribute of the parent of their parent (c.strings).      *)
(***************************************************************************)
_css_select(soup, selector) ==
    LET selection == soup.select[selector]
    IN  IF selection # <<>> THEN Strip(selection[1]) ELSE None

\* The loop of _get_n_ratings from candidate i on.  The result is
\* [exc, val]: exc is "none" or the class of the exception raised.
RECURSIVE NRatingsFrom(_, _)
NRatingsFrom(product, i) ==
    IF i > Len(n_ratings_selectors) THEN [ exc |-> "none", val |-> NaN ]
    ELSE LET n_ratings == _css_select(product, n_ratings_selectors[i])
         IN  IF n_ratings = None
             THEN [ exc |-> "AttributeError", val |-> NaN ]
             ELSE LET r == PyInt(Replace(n_ratings, ",", <<>>))
                  IN  IF r.ok THEN [ exc |-> "none", val |-> [ int |-> r.val ] ]
                      ELSE NRatingsFrom(product, i + 1)

_get_n_ratings(product) == NRatingsFrom(product, 1)

TitleNotFound ==
    << "T", "i", "t", "l", "e", " ", "n", "o", "t", " ", "f", "o", "u", "n", "d" >>

RECURSIVE TitleFrom(_, _)
\* Variant: a candidate is taken as soon as it matches an element
TitleFrom_EmptyAccepted(product, i) ==
    IF i > Len(title_selectors) THEN TitleNotFound
    ELSE LET title == _css_select(product, title_selectors[i])
         IN  IF title # None THEN title ELSE TitleFrom(product, i + 1)

TitleFrom(product, i) ==
    IF i > Len(title_selectors) THEN TitleNotFound
    ELSE LET title == _css_select(product, title_selectors[i])
         IN  IF Truthy(title) THEN title ELSE TitleFrom(product, i + 1)

_get_title(product) == TitleFrom(product, 1)

_get_rating(product) ==
    LET ms == RatingMatches(product.markup)
    IN  IF ms = {} THEN [ exc |-> "none", val |-> NaN ]
        ELSE LET i == CHOOSE a \in ms : \A b \in ms : a <= b
                 f == PyFloat(Replace(SubSeq(product.markup, i, i + 2), ",", << "." >>))
             IN  IF f.ok THEN [ exc |-> "none", val |-> f.val ]
                 ELSE [ exc |-> "ValueError", val |-> NaN ]

AcMark == << ".", "_", "A", "C", "_" >>
DotJpg == << ".", "j", "p", "g" >>

IsAt(t, i, w) == i >= 1 /\ i + Len(w) - 1 <= Len(t) /\ SubSeq(t, i, i + Len(w) - 1) = w

\* '\._AC_.*?\.jpg' matches from i to the ".jpg" that starts at j
AcMatch(t, i, j) ==
    /\ IsAt(t, i, AcMark)
    /\ j >= i + Len(AcMark)
    /\ IsAt(t, j, DotJpg)
    /\ \A m \in (i + Len(AcMark))..(j - 1) : t[m] # "\n"

\* re.sub(r'\._AC_.*?\.jpg', r'.jpg', url): every match, left to right, the
\* shortest one at each start
RECURSIVE _get_high_res_img_url(_)
_get_high_res_img_url(url) ==
    LET starts == { i \in 1..Len(url) : \E j \in 1..Len(url) : AcMatch(url, i, j) }
    IN  IF starts = {} THEN url
        ELSE LET i == CHOOSE a \in starts : \A b \in starts : a <= b
                 j == CHOOSE a \in 1..Len(url) :
                         /\ AcMatch(url, i, a)
                         /\ \A b \in 1..Len(url) : AcMatch(url, i, b) => a <= b
             IN  SubSeq(url, 1, i - 1) \o DotJpg
                   \o _get_high_res_img_url(SubSeq(url, j + Len(DotJpg), Len(url)))

_get_img(product) ==
    LET img_url == _css_select(product, "img[src]")
    IN  IF Truthy(img_url) THEN _get_high_res_img_url(img_url) ELSE <<>>

_get_url(product, base_url) ==
    LET url == _css_select(product, "a[href]")
    IN  IF Truthy(url) THEN urljoin(base_url, url) ELSE EmptyStr

_get_asin(product, base_url) ==
    LET url == _get_url(product, base_url)
    IN  IF url = EmptyStr THEN <<>> ELSE LastSegment(url.path)

\* Value of one key of the result of _get_prices: the element of a
\* one-element set, nan for the empty set, else the ', '-joined elements
\* (in the iteration order of the set, which the model leaves open).
Collapse(value) ==
    IF value = {} THEN NaN
    ELSE IF Cardinality(value) = 1 THEN [ one |-> CHOOSE v \in value : TRUE ]
    ELSE [ joined |-> value ]

\* find_all(text=re.compile('\$[\d,]+.\d\d')): the text nodes the pattern
\* is found in, in document order
RawPrices(product) ==
    SelectSeq(product.strings, LAMBDA n : PriceMatches(n.text) # {})

\* The loop of _get_prices from fragment i on, with the three sets so far
\* (PricesFrom), and its body for the fragment raw_price whose amount
\* float() made price (PriceStep).
RECURSIVE PricesFrom(_, _, _)
RECURSIVE PriceStep(_, _, _, _, _)
PriceStep(raw_prices, i, prices, raw_price, price) ==
    IF ~price.ok THEN [ exc |-> "ValueError", prices |-> prices ]
    ELSE IF raw_prices[i].strike = "true" \/ raw_price = << "$", "0", ".", "0", "0" >>
         THEN PricesFrom(raw_prices, i + 1, prices)
    ELSE IF Head(raw_price) = "(" /\ \E m \in 1..Len(raw_price) : raw_price[m] = "/"
         THEN IF UnitMatches(raw_price) = {}
              THEN [ exc |-> "IndexError", prices |-> prices ]
              ELSE PricesFrom(raw_prices, i + 1,
                      [ prices EXCEPT
                          !.prices_per_unit = @ \cup { price.val },
                          !.units = @ \cup { UnitGroup(raw_price) } ])
    ELSE PricesFrom(raw_prices, i + 1,
            [ prices EXCEPT !.prices_main = @ \cup { price.val } ])

PricesFrom(raw_prices, i, prices) ==
    IF i > Len(raw_prices) THEN [ exc |-> "none", prices |-> prices ]
    ELSE PriceStep(raw_prices, i, prices, raw_prices[i].text,
                   PyFloat(PriceGroup(raw_prices[i].text)))

\* The return expression of _get_prices, on the result r of its loop
PricesResult(r) ==
    [ exc             |-> r.exc,
      prices_per_unit |-> Collapse(r.prices.prices_per_unit),
      units           |-> Collapse(r.prices.units),
      prices_main     |-> Collapse(r.prices.prices_main) ]

_get_prices(product) ==
    PricesResult(PricesFrom(RawPrices(product), 1,
                    [ prices_per_unit |-> {}, units |-> {}, prices_main |-> {} ]))

\* The product_dict of one container from the results of its extractors,
\* or the exception the first failing extractor raised.
ProductDictOf(title, rating, review_nb, img, url, asin, prices) ==
    [ exc  |-> IF rating.exc # "none" THEN rating.exc
               ELSE IF review_nb.exc # "none" THEN review_nb.exc
               ELSE prices.exc,
      dict |-> [ title           |-> title,
                 rating          |-> rating.val,
                 review_nb       |-> review_nb.val,
                 img             |-> img,
                 url             |-> url,
                 asin            |-> asin,
                 prices_per_unit |-> prices.prices_per_unit,
                 units           |-> prices.units,
                 prices_main     |-> prices.prices_main ] ]

\* The body of the product loop of _extract_page
ProductDict(product, base) ==
    ProductDictOf(_get_title(product), _get_rating(product), _get_n_ratings(product),
                  _get_img(product), _get_url(product, base), _get_asin(product, base),
                  _get_prices(product))

(***************************************************************************)
(* Inputs: the containers and pages the site can serve.                    *)
(***************************************************************************)
ContainerSelectors ==
    { n_ratings_selectors[i] : i \in 1..Len(n_ratings_selectors) }
      \cup { title_selectors[i] : i \in 1..Len(title_selectors) }
      \cup { "img[src]", "a[href]" }

\* A container from what soup.select returns in it for the three title
\* candidates, the three review-count candidates, 'img[src]' and 'a[href]',
\* from its markup and from its text nodes.
Container(t1, t2, t3, n1, n2, n3, img, a, markup, strings) ==
    [ select  |-> [ s \in ContainerSelectors |->
                      CASE s = title_selectors[1] -> t1
                        [] s = title_selectors[2] -> t2
                        [] s = title_selectors[3] -> t3
                        [] s = n_ratings_selectors[1] -> n1
                        [] s = n_ratings_selectors[2] -> n2
                        [] s = n_ratings_selectors[3] -> n3
                        [] s = "img[src]" -> img
                        [] s = "a[href]" -> a ],
      markup  |-> markup,
      strings |-> strings ]

Containers ==
    [ full |->
          Container(<< << "T", "v" >> >>, <<>>, <<>>,
              << << "1", ",", "2", "3", "4" >> >>, <<>>, <<>>,
              << <<>> >>, << << "d", "p", "/", "B", "0", "1" >> >>,
              << "4", ".", "5", " ", "o", "u", "t", " ", "o", "f", " ", "5" >>,
              << [ text |-> << "T", "v" >>, strike |-> "none" ],
                   [ text |-> << "$", "1", "9", ".", "9", "9" >>, strike |-> "none" ],
                   [ text |-> << "$", "2", "9", ".", "9", "9" >>, strike |-> "true" ],
                   [ text |-> << "(", "$", "4", ".", "0", "0", "/", "o", "z", ")" >>, strike |-> "none" ] >>),
      fallback |->
          Container(<< <<>> >>, << << " ", "W", "i", "d", "g", "e", "t", " ", "P", "r", "o", " " >> >>, <<>>,
              << << "n", "e", "w" >> >>, << << "1", "2" >> >>, <<>>,
              << <<>> >>, << << " " >> >>,
              << "4", ",", "0", " ", "o", "u", "t", " ", "o", "f", " ", "5" >>,
              << [ text |-> << "$", "5", ".", "0", "0" >>, strike |-> "none" ],
                   [ text |-> << "$", "7", ".", "5", "0" >>, strike |-> "none" ] >>),
      bare |->
          Container(<<>>, <<>>, <<>>,
              << << "n", "/", "a" >> >>, << << "-" >> >>, << << "x" >> >>,
              <<>>, <<>>,
              <<>>,
              <<>>),
      no_reviews |->
          Container(<< << "T", "v" >> >>, <<>>, <<>>,
              <<>>, <<>>, <<>>,
              << <<>> >>, << << "d", "p", "/", "B", "0", "2" >> >>,
              << "4", ".", "5", " ", "o", "u", "t", " ", "o", "f", " ", "5" >>,
              << [ text |-> << "$", "1", "9", ".", "9", "9" >>, strike |-> "none" ] >>),
      thousands |->
          Container(<< << "P", "c" >> >>, <<>>, <<>>,
              << << "7" >> >>, <<>>, <<>>,
              << <<>> >>, << << "d", "p", "/", "B", "0", "3" >> >>,
              <<>>,
              << [ text |-> << "$", "1", ",", "2", "9", "9", ".", "9", "9" >>, strike |-> "none" ] >>),
      open_paren |->
          Container(<< << "O", "i", "l" >> >>, <<>>, <<>>,
              << << "7" >> >>, <<>>, <<>>,
              << <<>> >>, << << "d", "p", "/", "B", "0", "4" >> >>,
              <<>>,
              << [ text |-> << "(", "$", "4", ".", "0", "0", "/", "o", "z" >>, strike |-> "none" ] >>),
      blank_rating |->
          Container(<< << "T", "v" >> >>, <<>>, <<>>,
              << << "7" >> >>, <<>>, <<>>,
              << <<>> >>, << << "d", "p", "/", "B", "0", "5" >> >>,
              << "4", " ", "5", " ", "o", "u", "t", " ", "o", "f", " ", "5" >>,
              <<>>),
      zero_priced |->
          Container(<< << "G", "i", "f", "t" >> >>, <<>>, <<>>,
              << << "7" >> >>, <<>>, <<>>,
              << <<>> >>, << << "d", "p", "/", "B", "0", "6" >> >>,
              <<>>,
              << [ text |-> << "$", "0", ".", "0", "0" >>, strike |-> "none" ],
                 [ text |-> << "$", "0", ".", "0", "0", " ", "e", "a" >>, strike |-> "none" ],
                 [ text |-> << "(", "$", "0", ".", "0", "0", "/", "o", "z", ")" >>, strike |-> "none" ] >>) ]

ProductSelectors == { CSS_SELECTORS[n].product : n \in DOMAIN CSS_SELECTORS }
NextSelectors    == { CSS_SELECTORS[n].next_page_url : n \in DOMAIN CSS_SELECTORS }

\* A parsed page from the phrases its text contains, the containers
\* soup.select returns for the product selector of each schema, and the href
\* values of the elements it returns for the three next-page selectors
\* (every element matched by 'ul.a-pagination > li.a-last > a[href]' is
\* also matched by 'li.a-last > a[href]').
Page(phrases, mobile, mobile_grid, desktop, desktop_2, pagination, pagn, a_last) ==
    [ phrases  |-> phrases,
      products |-> [ s \in ProductSelectors |->
                       CASE s = CSS_SELECTORS.mobile.product -> mobile
                         [] s = CSS_SELECTORS.mobile_grid.product -> mobile_grid
                         [] s = CSS_SELECTORS.desktop.product -> desktop
                         [] s = CSS_SELECTORS.desktop_2.product -> desktop_2 ],
      links    |-> [ s \in NextSelectors |->
                       CASE s = CSS_SELECTORS.mobile.next_page_url -> pagination
                         [] s = CSS_SELECTORS.desktop.next_page_url -> pagn
                         [] s = CSS_SELECTORS.desktop_2.next_page_url -> pagination \o a_last ] ]

Page2 == << "/", "s", "?", "p", "a", "g", "e", "=", "2" >>
Page3 == << "s", "?", "p", "a", "g", "e", "=", "3" >>

\* The texts a response can carry, by name, with what BeautifulSoup makes
\* of each.
Pages ==
    [ listing_a |->
          Page({ "results for" }, << Containers.full, Containers.fallback >>, <<>>, <<>>, <<>>,
               << Page2 >>, <<>>, <<>>),
      listing_b |->
          Page({ "results for" }, <<>>, <<>>, << Containers.fallback >>,
               << Containers.bare, Containers.full >>,
               << Page3, Page2 >>, <<>>, <<>>),
      no_layout |->
          Page({ "results for" }, <<>>, <<>>, <<>>, <<>>, << Page2 >>, <<>>, <<>>),
      last_page |->
          Page({ "results for" }, << Containers.full >>, <<>>, <<>>, <<>>, <<>>, <<>>, <<>>),
      desktop_nav |->
          Page({ "results for" }, <<>>, <<>>, << Containers.bare >>, <<>>,
               <<>>, << Page2 >>, <<>>),
      missing_reviews |->
          Page({ "results for" }, <<>>, << Containers.full, Containers.no_reviews, Containers.full >>,
               <<>>, <<>>, << Page2 >>, <<>>, <<>>),
      odd_numbers |->
          Page({ "results for" }, << Containers.thousands >>, <<>>, <<>>, <<>>, << Page2 >>, <<>>, <<>>),
      odd_unit |->
          Page({ "results for" }, << Containers.open_paren >>, <<>>, <<>>, <<>>, << Page2 >>, <<>>, <<>>),
      odd_rating |->
          Page({ "results for" }, << Containers.blank_rating >>, <<>>, <<>>, <<>>, << Page2 >>, <<>>, <<>>),
      free_offer |->
          Page({ "results for" }, << Containers.zero_priced >>, <<>>, <<>>, <<>>, << Page2 >>, <<>>, <<>>),
      robot |->
          Page({ "results for", "Robot Check" }, << Containers.full >>, <<>>, <<>>, <<>>,
               << Page2 >>, <<>>, <<>>),
      sign_in |->
          Page({ "Sign in for the best experience", "The request could not be satisfied." },
               <<>>, <<>>, <<>>, <<>>, <<>>, <<>>, <<>>) ]

PageNames == DOMAIN Pages

\* BeautifulSoup(page, _DEFAULT_BEAUTIFULSOUP_PARSER)
BeautifulSoup(page) == Pages[page]

\* What session.get(url, headers=...) can do: return a response with a
\* status code and a text, or raise.  A URL without scheme ('None') is
\* refused before anything is sent.
Outcomes(url) ==
    IF url = NoneUrl
    THEN { [ kind |-> "raise", exc |-> "requests.exceptions.MissingSchema" ] }
    ELSE { [ kind |-> "response", status_code |-> 200, text |-> p ] : p \in PageNames }
           \cup { [ kind |-> "response", status_code |-> 503, text |-> "listing_a" ] }
           \cup { [ kind |-> "raise", exc |-> e ] :
                    e \in { "requests.exceptions.SSLError",
                            "requests.exceptions.ConnectionError" } }

(***************************************************************************)
(* Exceptions: the classes that can be raised under _get_page_html and     *)
(* their base classes (requests.exceptions.ConnectionError is not the      *)
(* builtin ConnectionError the except clause names).                       *)
(***************************************************************************)
Bases(cls) ==
    CASE cls = "requests.exceptions.SSLError" -> { "requests.exceptions.ConnectionError" }
      [] cls = "requests.exceptions.ConnectionError" -> { "requests.exceptions.RequestException" }
      [] cls = "requests.exceptions.MissingSchema" -> { "requests.exceptions.RequestException", "ValueError" }
      [] cls = "requests.exceptions.RequestException" -> { "OSError" }
      [] cls = "ConnectionError" -> { "OSError" }
      [] OTHER -> {}

RECURSIVE IsInstance(_, _)
IsInstance(exc, cls) ==
    exc = cls \/ \E b \in Bases(exc) : IsInstance(b, cls)

\* except (requests.exceptions.SSLError, ConnectionError)
Caught(exc) ==
    IsInstance(exc, "requests.exceptions.SSLError") \/ IsInstance(exc, "ConnectionError")

(***************************************************************************)
(* State of one AmazonClient and of the call of _get_products in progress. *)
(***************************************************************************)
VARIABLES
    pc,                         \* position: "idle", "while", "fetch", "extract", "returned", "raised"
    current_user_agent_index,   \* self.current_user_agent_index (0-based)
    headers,                    \* self.headers
    base_url,                   \* self.base_url
    product_dict_list,          \* self.product_dict_list
    html_pages,                 \* self.html_pages
    search_url,                 \* search_url of _get_products
    max_product_nb,             \* max_product_nb of _get_products
    trials,                     \* trials of _get_page_html
    exception,                  \* class of the exception that left _get_products, or "none"
    calls,                      \* history: calls of _get_products so far
    entry,                      \* history: lengths of the two lists when the call began
    attempt,                    \* history: the last GET of the fetch in progress and its outcome
    rotations,                  \* history: calls of _change_user_agent in the fetch in progress
    slept,                      \* history: seconds slept in the fetch in progress
    fetched,                    \* history: the URL each page of html_pages was fetched from
    origin                      \* history: page, schema, position of the container and base_url of each record

vars == << pc, current_user_agent_index, headers, base_url, product_dict_list,
           html_pages, search_url, max_product_nb, trials, exception,
           calls, entry, attempt, rotations, slept, fetched, origin >>

NoAttempt == [ url |-> NoneUrl, user_agent |-> "", outcome |-> "none" ]

\* __init__
Init ==
    /\ pc = "idle"
    /\ current_user_agent_index = 0
    /\ headers = [ Host       |-> "www.amazon.com",
                   User_Agent |-> _USER_AGENT_LIST[1],
                   Accept     |-> "text/html,application/xhtml+xml, application/xml;q=0.9,image/webp,image/apng,*/*;q=0.8" ]
    /\ base_url = NoneUrl
    /\ product_dict_list = <<>>
    /\ html_pages = <<>>
    /\ search_url = EmptyStr
    /\ max_product_nb = 0
    /\ trials = 0
    /\ exception = "none"
    /\ calls = 0
    /\ entry = [ products |-> 0, pages |-> 0 ]
    /\ attempt = NoAttempt
    /\ rotations = 0
    /\ slept = 0
    /\ fetched = <<>>
    /\ origin = <<>>

_get_search_url(keywords) ==
    urljoin(_BASE_URL, << "s", "?", "k", "=" >> \o keywords)

\* The keywords and explicit search URLs a caller passes ('' is no URL).
Keywords   == { << "t", "v" >> }
SearchUrls == { EmptyStr, [ domain |-> "www.amazon.com", path |-> << "s", "?", "k", "=", "t", "v" >> ] }

\* Variant: every call starts with an empty list of records
get_products_Resets(keywords, url, max) ==
    /\ pc \in { "idle", "returned", "raised" }
    /\ calls < MaxCalls
    /\ LET start == IF url = EmptyStr THEN _get_search_url(keywords) ELSE url
       IN  /\ search_url' = start
           /\ base_url' = [ domain |-> start.domain, path |-> <<>> ]
           /\ headers' = [ headers EXCEPT !.Host = start.domain ]
    /\ max_product_nb' = max
    /\ exception' = "none"
    /\ calls' = calls + 1
    /\ product_dict_list' = <<>>
    /\ origin' = <<>>
    /\ entry' = [ products |-> 0, pages |-> Len(html_pages) ]
    /\ attempt' = NoAttempt
    /\ pc' = "while"
    /\ UNCHANGED << current_user_agent_index, html_pages, trials,
                    rotations, slept, fetched >>

\* _get_products up to its loop: the search URL and _update_headers.
get_products(keywords, url, max) ==
    /\ pc \in { "idle", "returned", "raised" }
    /\ calls < MaxCalls
    /\ LET start == IF url = EmptyStr THEN _get_search_url(keywords) ELSE url
       IN  /\ search_url' = start
           /\ base_url' = [ domain |-> start.domain, path |-> <<>> ]
           /\ headers' = [ headers EXCEPT !.Host = start.domain ]
    /\ max_product_nb' = max
    /\ exception' = "none"
    /\ calls' = calls + 1
    /\ entry' = [ products |-> Len(product_dict_list), pages |-> Len(html_pages) ]
    /\ attempt' = NoAttempt
    /\ pc' = "while"
    /\ UNCHANGED << current_user_agent_index, product_dict_list, html_pages, trials,
                    rotations, slept, fetched, origin >>

\* Variant: the attempt counter is kept from one fetch to the next
WhileTest_KeepsTrials ==
    /\ pc = "while"
    /\ IF Len(product_dict_list) < max_product_nb
       THEN /\ Len(html_pages) < MaxPages
            /\ pc' = "fetch"
            /\ attempt' = NoAttempt
            /\ rotations' = 0
            /\ slept' = 0
       ELSE /\ pc' = "returned"
            /\ UNCHANGED << attempt, rotations, slept >>
    /\ UNCHANGED << current_user_agent_index, headers, base_url, product_dict_list,
                    html_pages, search_url, max_product_nb, exception, calls, entry,
                    fetched, origin, trials >>

\* while len(self.product_dict_list) < max_product_nb: enter _get_page_html
\* or return self.product_dict_list
WhileTest ==
    /\ pc = "while"
    /\ IF Len(product_dict_list) < max_product_nb
       THEN /\ Len(html_pages) < MaxPages
            /\ pc' = "fetch"
            /\ trials' = 0
            /\ attempt' = NoAttempt
            /\ rotations' = 0
            /\ slept' = 0
       ELSE /\ pc' = "returned"
            /\ UNCHANGED << trials, attempt, rotations, slept >>
    /\ UNCHANGED << current_user_agent_index, headers, base_url, product_dict_list,
                    html_pages, search_url, max_product_nb, exception, calls, entry,
                    fetched, origin >>

\* Variant: only the last keyword is looked for
_check_page_LastKeyword(html_content) ==
    ~ ("Robot Check" \in BeautifulSoup(html_content).phrases)

_check_page(html_content) ==
    ~ \E keyword \in invalid_keywords : keyword \in BeautifulSoup(html_content).phrases

\* Variant: the header is set from the index as it was before the step
_change_user_agent_StaleHeader ==
    /\ current_user_agent_index' =
          (current_user_agent_index + 1) % Len(_USER_AGENT_LIST)
    /\ headers' = [ headers EXCEPT
          !.User_Agent = _USER_AGENT_LIST[current_user_agent_index + 1] ]

\* _change_user_agent
_change_user_agent ==
    /\ current_user_agent_index' =
          (current_user_agent_index + 1) % Len(_USER_AGENT_LIST)
    /\ headers' = [ headers EXCEPT
          !.User_Agent = _USER_AGENT_LIST[current_user_agent_index' + 1] ]

\* _get, given what session.get does: the class of the exception that
\* leaves it, or "none" when it returns the response
_get(r) ==
    IF r.kind = "raise" THEN r.exc
    ELSE IF r.status_code # 200 THEN "ConnectionError"
    ELSE "none"

\* What one GET came to, for the history
OutcomeOf(r) ==
    IF r.kind = "raise" THEN r.exc
    ELSE IF r.status_code # 200 THEN "bad status"
    ELSE IF \E keyword \in invalid_keywords : keyword \in BeautifulSoup(r.text).phrases
         THEN "block page"
    ELSE "valid"

\* One iteration of the loop of _get_page_html, with _get: the GET, the
\* status test, the validity test, and then either the return of the page
\* (appended to html_pages by _get_products), an exception that is not
\* caught, or _change_user_agent and the sleep.
Attempt(r) ==
    /\ pc = "fetch"
    /\ trials < _MAX_TRIAL_REQUESTS
    /\ trials' = trials + 1
    /\ attempt' = [ url |-> search_url, user_agent |-> headers.User_Agent,
                    outcome |-> OutcomeOf(r) ]
    /\ LET exc == _get(r)
       IN  IF exc = "none" /\ _check_page(r.text)
           THEN /\ html_pages' = Append(html_pages, r.text)
                /\ fetched' = Append(fetched, search_url)
                /\ pc' = "extract"
                /\ UNCHANGED << current_user_agent_index, headers, exception,
                                rotations, slept >>
           ELSE IF exc # "none" /\ ~Caught(exc)
           THEN /\ pc' = "raised"
                /\ exception' = exc
                /\ UNCHANGED << current_user_agent_index, headers, html_pages,
                                fetched, rotations, slept >>
           ELSE /\ _change_user_agent
                /\ rotations' = rotations + 1
                /\ slept' = slept + _WAIT_TIME_BETWEEN_REQUESTS
                /\ pc' = "fetch"
                /\ UNCHANGED << exception, html_pages, fetched >>
    /\ UNCHANGED << base_url, product_dict_list, search_url, max_product_nb, calls,
                    entry, origin >>

\* ValueError('No valid pages found!'), told apart from the ValueError of
\* float()
FetchExhausted == "ValueError: No valid pages found!"

\* Variant: the records are dropped when the fetch gives up
Exhausted_DropsRecords ==
    /\ pc = "fetch"
    /\ ~ (trials < _MAX_TRIAL_REQUESTS)
    /\ pc' = "raised"
    /\ exception' = FetchExhausted
    /\ product_dict_list' = <<>>
    /\ origin' = <<>>
    /\ UNCHANGED << current_user_agent_index, headers, base_url,
                    html_pages, search_url, max_product_nb, trials, calls, entry,
                    attempt, rotations, slept, fetched >>

\* raise ValueError('No valid pages found!')
Exhausted ==
    /\ pc = "fetch"
    /\ ~ (trials < _MAX_TRIAL_REQUESTS)
    /\ pc' = "raised"
    /\ exception' = FetchExhausted
    /\ UNCHANGED << current_user_agent_index, headers, base_url, product_dict_list,
                    html_pages, search_url, max_product_nb, trials, calls, entry,
                    attempt, rotations, slept, fetched, origin >>

\* The schema loop of _extract_page from schema i on: the first schema, in
\* the order of CSS_SELECTORS, whose product selector returns elements, with
\* these elements; the (empty) result of the last selector when none does.
RECURSIVE ResolveFrom(_, _)
ResolveFrom(soup, i) ==
    LET products == soup.products[CSS_SELECTORS[SchemaOrder[i]].product]
    IN  IF products # <<>> \/ i = Len(SchemaOrder)
        THEN [ schema |-> SchemaOrder[i], products |-> products ]
        ELSE ResolveFrom(soup, i + 1)

Resolve(soup) == ResolveFrom(soup, 1)

\* The product loop of _extract_page from container i on: the list after
\* it, and the exception that ended it, if any (ExtractFrom); its body for
\* the container whose extraction gave d (ExtractStep).
RECURSIVE ExtractFrom(_, _, _, _, _)
RECURSIVE ExtractStep(_, _, _, _, _, _)
\* Variant: the product_dict is put at the front of the list
ExtractStep_AtFront(products, i, list, max, base, d) ==
    IF d.exc # "none" THEN [ exc |-> d.exc, list |-> list ]
    ELSE ExtractFrom(products, i + 1, << d.dict >> \o list, max, base)

ExtractStep(products, i, list, max, base, d) ==
    IF d.exc # "none" THEN [ exc |-> d.exc, list |-> list ]
    ELSE ExtractFrom(products, i + 1, Append(list, d.dict), max, base)

\* Variant: the product loop without the test of the length
ExtractFrom_NoLengthTest(products, i, list, max, base) ==
    IF i > Len(products) THEN [ exc |-> "none", list |-> list ]
    ELSE ExtractStep(products, i, list, max, base, ProductDict(products[i], base))

ExtractFrom(products, i, list, max, base) ==
    IF i > Len(products) \/ Len(list) >= max THEN [ exc |-> "none", list |-> list ]
    ELSE ExtractStep(products, i, list, max, base, ProductDict(products[i], base))

\* Variant: the next-page selector of the schema that matched the page
_get_next_page_url_OfSchema(soup, base) ==
    LET next_page_url == soup.links[CSS_SELECTORS[Resolve(soup).schema].next_page_url]
    IN  IF next_page_url # <<>> THEN urljoin(base, next_page_url[1]) ELSE NoneUrl

_get_next_page_url(soup, base) ==
    LET next_page_url == soup.links[CSS_SELECTORS.mobile.next_page_url]
    IN  IF next_page_url # <<>> THEN urljoin(base, next_page_url[1]) ELSE NoneUrl

\* The effect of _extract_page on a page resolved to resolved, whose product
\* loop gave r and whose next-page link is next, and the assignment of next
\* to search_url
Extracted(resolved, r, next) ==
    /\ product_dict_list' = r.list
    /\ origin' = origin \o
           [ k \in 1..(Len(r.list) - Len(product_dict_list)) |->
               [ page |-> Len(html_pages), schema |-> resolved.schema, index |-> k,
                 base |-> base_url ] ]
    /\ IF r.exc # "none"
       THEN /\ pc' = "raised"
            /\ exception' = r.exc
            /\ UNCHANGED search_url
       ELSE /\ pc' = "while"
            /\ search_url' = next
            /\ UNCHANGED exception

\* Variant: a page without containers ends the walk
ExtractSoup_NoProductsNoNext(soup, resolved) ==
    Extracted(resolved,
              ExtractFrom(resolved.products, 1, product_dict_list, max_product_nb, base_url),
              IF resolved.products = <<>> THEN NoneUrl
              ELSE _get_next_page_url(soup, base_url))

\* _extract_page on the parsed page soup
ExtractSoup(soup, resolved) ==
    Extracted(resolved,
              ExtractFrom(resolved.products, 1, product_dict_list, max_product_nb, base_url),
              _get_next_page_url(soup, base_url))

\* _extract_page on the page just appended to html_pages
ExtractPage ==
    /\ pc = "extract"
    /\ ExtractSoup(BeautifulSoup(html_pages[Len(html_pages)]),
                   Resolve(BeautifulSoup(html_pages[Len(html_pages)])))
    /\ UNCHANGED << current_user_agent_index, headers, base_url, html_pages,
                    max_product_nb, trials, calls, entry, attempt, rotations, slept,
                    fetched >>

Next ==
    \/ \E keywords \in Keywords, url \in SearchUrls, max \in 1..MaxTarget :
          get_products(keywords, url, max)
    \/ WhileTest
    \/ \E r \in Outcomes(search_url) : Attempt(r)
    \/ Exhausted
    \/ ExtractPage

Spec == Init /\ [][Next]_vars

(***************************************************************************)
(* Properties.                                                             *)
(***************************************************************************)
\* Containers the product selector of the first matching schema returns on
\* a page, and their number over a sequence of pages
ProductsOn(page) == Resolve(BeautifulSoup(page)).products

RECURSIVE SumProducts(_)
SumProducts(pages) ==
    IF pages = <<>> THEN 0
    ELSE Len(ProductsOn(Head(pages))) + SumProducts(Tail(pages))

AllButLast(q) == SubSeq(q, 1, Len(q) - 1)

\* C1: on a fresh client, once a fetched page has no next-page link
\* (search_url is None), _get_products is at its loop test or has returned
\* the records accumulated so far, without an exception and without entering
\* another fetch.
C1_MissingNextLinkReturns ==
    (/\ calls = 1
     /\ search_url = NoneUrl
     /\ \A sel \in NextSelectors :
           BeautifulSoup(html_pages[Len(html_pages)]).links[sel] = <<>>)
        => (pc \in { "while", "returned" } /\ exception = "none")

TransientFailures ==
    { "bad status", "block page",
      "requests.exceptions.SSLError", "requests.exceptions.ConnectionError" }

\* C3: after an attempt that failed with a bad status, a transport error, a
\* TLS error or a block page, the identity has been rotated, the delay has
\* been waited and _get_page_html goes on (to the next attempt, or to
\* FetchExhausted when the budget is used up); the failure does not leave it.
C3_TransientFailuresRecovered ==
    attempt.outcome \in TransientFailures
        => /\ pc = "fetch" \/ (pc = "raised" /\ exception = FetchExhausted /\ trials = 5)
           /\ headers.User_Agent # attempt.user_agent
           /\ slept = trials * _WAIT_TIME_BETWEEN_REQUESTS

\* C4: FetchExhausted is raised after exactly 5 GET requests of one fetch,
\* each followed by a rotation of the identity and by the delay.
C4_ExhaustedAfterBudget ==
    exception = FetchExhausted
        => /\ pc = "raised"
           /\ trials = 5
           /\ rotations = 5
           /\ slept = 5 * _WAIT_TIME_BETWEEN_REQUESTS
           /\ attempt.outcome \in TransientFailures
           /\ headers.User_Agent # attempt.user_agent

\* C4 witness: a fetch ended in FetchExhausted.
C4_Witness ==
    pc = "raised" /\ exception = FetchExhausted /\ trials = _MAX_TRIAL_REQUESTS

HasBlockPhrase(page) ==
    \E keyword \in invalid_keywords : keyword \in BeautifulSoup(page).phrases

\* C5: no page with a block phrase is returned by _get_page_html (stored in
\* html_pages, passed to _extract_page); after a response with a block
\* phrase the identity is rotated and the next step of the fetch is another
\* GET of the same URL or, after the last attempt, FetchExhausted.
C5_BlockPageNeverAccepted ==
    /\ [](/\ \A i \in DOMAIN html_pages : ~HasBlockPhrase(html_pages[i])
          /\ attempt.outcome = "block page"
                => /\ pc = "fetch" \/ exception = FetchExhausted
                   /\ headers.User_Agent # attempt.user_agent)
    /\ [][(pc = "fetch" /\ attempt.outcome = "block page")
             => \/ /\ trials < 5
                   /\ trials' = trials + 1
                   /\ attempt'.url = attempt.url
                \/ /\ trials = 5
                   /\ exception' = FetchExhausted]_vars

\* C5 witness: a block page was received and the fetch goes on.
C5_Witness ==
    pc = "fetch" /\ attempt.outcome = "block page" /\ trials = 1 /\ rotations = 1

\* The page fetched last, parsed, and the number of records made from it
LastSoup == BeautifulSoup(html_pages[Len(html_pages)])

FromLastPage ==
    Cardinality({ i \in DOMAIN origin : origin[i].page = Len(html_pages) })

ExtractionExceptions == { "AttributeError", "ValueError", "IndexError" }

\* The containers of the page fetched last on which the body of the product
\* loop has run: those a record was made from and the one it raised on.
ReachedContainers ==
    IF html_pages = <<>> \/ pc = "extract" THEN {}
    ELSE { ProductsOn(html_pages[Len(html_pages)])[i] :
             i \in 1..(FromLastPage
                         + IF pc = "raised" /\ exception \in ExtractionExceptions
                           THEN 1 ELSE 0) }

Fields ==
    { "title", "rating", "review_nb", "img", "url", "asin",
      "prices_main", "prices_per_unit", "units" }

\* No selector or pattern of the field finds anything in the container
FieldMiss(c, f) ==
    CASE f = "title" -> \A i \in DOMAIN title_selectors : c.select[title_selectors[i]] = <<>>
      [] f = "rating" -> RatingMatches(c.markup) = {}
      [] f = "review_nb" ->
            \A i \in DOMAIN n_ratings_selectors : c.select[n_ratings_selectors[i]] = <<>>
      [] f = "img" -> c.select["img[src]"] = <<>>
      [] f \in { "url", "asin" } -> c.select["a[href]"] = <<>>
      [] OTHER -> RawPrices(c) = <<>>

\* What the extractor of the field gives: an exception or a value
FieldResult(c, f, base) ==
    CASE f = "title" -> [ exc |-> "none", val |-> _get_title(c) ]
      [] f = "rating" -> _get_rating(c)
      [] f = "review_nb" -> _get_n_ratings(c)
      [] f = "img" -> [ exc |-> "none", val |-> _get_img(c) ]
      [] f = "url" -> [ exc |-> "none", val |-> _get_url(c, base) ]
      [] f = "asin" -> [ exc |-> "none", val |-> _get_asin(c, base) ]
      [] OTHER -> [ exc |-> _get_prices(c).exc, val |-> _get_prices(c)[f] ]

Sentinel(f) ==
    CASE f = "title" -> TitleNotFound
      [] f \in { "img", "asin" } -> <<>>
      [] f = "url" -> EmptyStr
      [] OTHER -> NaN

\* C6: for every container the product loop ran on and every field whose
\* selectors or patterns match nothing in it, the extractor of the field
\* raises nothing and gives the sentinel of the field.
C6_FieldMissNeverFatal ==
    \A c \in ReachedContainers : \A f \in Fields :
        FieldMiss(c, f) => FieldResult(c, f, base_url) = [ exc |-> "none", val |-> Sentinel(f) ]

\* The text the rating pattern captured, with ',' replaced
RatingText(c) ==
    LET i == CHOOSE a \in RatingMatches(c.markup) : \A b \in RatingMatches(c.markup) : a <= b
    IN  Replace(SubSeq(c.markup, i, i + 2), ",", << "." >>)

\* C7: for every container the product loop ran on, the extractors of the
\* numeric fields raise nothing, whatever text their patterns matched, and a
\* rating or review count whose matched texts are not numbers is nan.
C7_UnparsableNumberIsUnknown ==
    \A c \in ReachedContainers :
        /\ _get_rating(c).exc = "none"
        /\ _get_prices(c).exc = "none"
        /\ _get_n_ratings(c).exc # "ValueError"
        /\ (RatingMatches(c.markup) # {} /\ ~PyFloat(RatingText(c)).ok)
              => _get_rating(c).val = NaN
        /\ (\A i \in DOMAIN n_ratings_selectors :
               /\ c.select[n_ratings_selectors[i]] # <<>>
               /\ ~PyInt(Replace(Strip(c.select[n_ratings_selectors[i]][1]), ",", <<>>)).ok)
              => _get_n_ratings(c).val = NaN

NoSchemaMatches(soup) ==
    \A n \in DOMAIN CSS_SELECTORS : soup.products[CSS_SELECTORS[n].product] = <<>>

\* C8: _extract_page on a page where no schema's product selector matches
\* appends nothing, raises nothing and resolves the next-page link of the
\* page; when there is one, the loop enters the fetch of it and the GET is
\* sent to it.
C8_SchemaMissNotFatal ==
    /\ [][(pc = "extract" /\ NoSchemaMatches(LastSoup))
             => /\ product_dict_list' = product_dict_list
                /\ exception' = "none"
                /\ pc' = "while"
                /\ search_url' = _get_next_page_url(LastSoup, base_url)]_vars
    /\ [][(/\ pc = "while"
           /\ Len(html_pages) > entry.pages
           /\ NoSchemaMatches(LastSoup)
           /\ search_url # NoneUrl)
             => (pc' = "fetch" /\ search_url' = search_url)]_vars
    /\ [][(pc = "fetch" /\ trials' = trials + 1) => attempt'.url = search_url]_vars

\* C8 witness: the page after a page without containers has been fetched
\* from the next-page link of that page, in the same call.
C8_Witness ==
    /\ pc = "extract"
    /\ Len(html_pages) >= entry.pages + 2
    /\ NoSchemaMatches(BeautifulSoup(html_pages[Len(html_pages) - 1]))
    /\ fetched[Len(html_pages)] =
          _get_next_page_url(BeautifulSoup(html_pages[Len(html_pages) - 1]), base_url)
    /\ fetched[Len(html_pages)] # NoneUrl

\* The priority order the schemas are to be tried in
Priority == << "mobile", "mobile_grid", "desktop", "desktop_2" >>

Matching(soup) ==
    { k \in DOMAIN Priority : soup.products[CSS_SELECTORS[Priority[k]].product] # <<>> }

\* The containers of the one schema that is first, in the priority order,
\* among those whose product selector matches the page
FirstMatching(soup) ==
    LET k == CHOOSE a \in Matching(soup) : \A b \in Matching(soup) : a <= b
    IN  [ schema |-> Priority[k], products |-> soup.products[CSS_SELECTORS[Priority[k]].product] ]

\* C9: the records a page adds all come from containers of the one schema
\* that is first, in the priority order, among those whose product selector
\* matches the page: at most as many records as that schema has containers,
\* the k-th of them from its k-th container, none from another schema.
C9_FirstMatchingSchemaOnly ==
    [][product_dict_list' # product_dict_list
          => /\ pc = "extract"
             /\ Matching(LastSoup) # {}
             /\ Len(product_dict_list') - Len(product_dict_list)
                   <= Len(FirstMatching(LastSoup).products)
             /\ \A i \in (Len(product_dict_list) + 1)..Len(product_dict_list') :
                   /\ origin'[i].schema = FirstMatching(LastSoup).schema
                   /\ product_dict_list'[i] =
                         ProductDict(FirstMatching(LastSoup).products[i - Len(product_dict_list)],
                                     base_url).dict]_vars

\* C9 witness: a record from a page that matches schema desktop and the
\* lower-priority desktop_2, and no higher-priority schema.
C9_Witness ==
    \E i \in DOMAIN product_dict_list :
        /\ origin[i].schema = "desktop"
        /\ Matching(BeautifulSoup(html_pages[origin[i].page])) = { 3, 4 }

\* The product_dicts of the first n containers of a page, in their order
DictsOf(page, n, base) ==
    [ k \in 1..n |-> ProductDict(ProductsOn(page)[k], base).dict ]

\* C10: a page adds its records at the end of the list, in the order of
\* their containers, so that the records are in the order of the pages
\* and, within a page, of the containers; each page of a call after the
\* first was fetched from the next-page link of the page before it, and a
\* fetch is entered only when every container of the page before has its
\* record.
C10_RecordsAndPagesInOrder ==
    /\ [][product_dict_list' # product_dict_list
             => \E n \in 1..Len(ProductsOn(html_pages[Len(html_pages)])) :
                   product_dict_list' =
                      product_dict_list \o DictsOf(html_pages[Len(html_pages)], n, base_url)]_vars
    /\ [](/\ Len(origin) = Len(product_dict_list)
          /\ Len(fetched) = Len(html_pages)
          /\ \A i, j \in DOMAIN origin :
                i < j => \/ origin[i].page < origin[j].page
                         \/ origin[i].page = origin[j].page /\ origin[i].index < origin[j].index
          /\ \A k \in DOMAIN fetched :
                k > entry.pages + 1
                   => fetched[k] = _get_next_page_url(BeautifulSoup(html_pages[k - 1]), base_url)
          /\ (pc = "fetch" /\ Len(html_pages) > entry.pages)
                => FromLastPage = Len(ProductsOn(html_pages[Len(html_pages)])))

\* C10 witness: two records of a first page followed by a record of the
\* page its next-page link led to.
C10_Witness ==
    /\ Len(product_dict_list) = 3
    /\ origin[1].page = 1 /\ origin[2].page = 1 /\ origin[3].page = 2
    /\ product_dict_list[1] # product_dict_list[2]
    /\ fetched[2] = _get_next_page_url(BeautifulSoup(html_pages[1]), base_url)

\* C11: when the next-page link of a page fetched at the first attempt is
\* the URL the page itself was fetched from, the walk around this cycle
\* comes nearer to its end each time: the loop is back at its test for the
\* same URL only with at least one record more than before the page,
\* whatever the page holds (also when it has no product container).
C11_CycleMakesProgress ==
    (/\ pc = "while"
     /\ Len(html_pages) > entry.pages
     /\ attempt.outcome = "valid" /\ trials = 1
     /\ search_url = fetched[Len(html_pages)])
        => FromLastPage > 0

\* C12: FetchExhausted leaves _get_products (the call is over, with this
\* exception); after it nothing is fetched or extracted until the caller
\* makes another call; and no step of a fetch, the one that gives up
\* included, changes the records or the pages stored before it.
C12_ExhaustionPropagates ==
    /\ [][(pc = "fetch" /\ ~(trials < _MAX_TRIAL_REQUESTS))
             => /\ pc' = "raised"
                /\ exception' = FetchExhausted
                /\ product_dict_list' = product_dict_list
                /\ html_pages' = html_pages]_vars
    /\ [][(pc = "fetch" /\ pc' # "extract")
             => (product_dict_list' = product_dict_list /\ html_pages' = html_pages)]_vars
    /\ [][(pc = "raised" /\ exception = FetchExhausted)
             => /\ calls' = calls + 1
                /\ product_dict_list' = product_dict_list
                /\ html_pages' = html_pages
                /\ attempt' = NoAttempt]_vars

\* C12 witness: the fetch of a later page of a call gave up, with records
\* of the pages before it in the list.
C12_Witness ==
    /\ pc = "raised" /\ exception = FetchExhausted
    /\ Len(html_pages) > entry.pages
    /\ Len(product_dict_list) > entry.products
    /\ Len(product_dict_list) < max_product_nb

\* The amount of a currency fragment, and the fragments that are
\* parenthesized and contain the unit divider, with the text after it
Amount(n) == PyFloat(PriceGroup(n.text)).val

PerUnitFragment(n) ==
    /\ Head(n.text) = "(" /\ n.text[Len(n.text)] = ")"
    /\ \E m \in DOMAIN n.text : n.text[m] = "/"

AfterDivider(n) ==
    LET i == CHOOSE a \in DOMAIN n.text :
                n.text[a] = "/" /\ \A b \in 1..(a - 1) : n.text[b] # "/"
    IN  SubSeq(n.text, i + 1, Len(n.text) - 1)

Fragments(c) == { RawPrices(c)[i] : i \in DOMAIN RawPrices(c) }

\* C13: for every container the product loop ran on, _get_prices raises
\* nothing and its three sets are the three-way partition of the currency
\* fragments: none for a strikethrough-flagged fragment, per-unit amount and
\* unit for a parenthesized fragment with the divider, main amount for
\* every other fragment.
C13_PricesPartitioned ==
    \A c \in ReachedContainers :
        _get_prices(c) =
            [ exc             |-> "none",
              prices_per_unit |->
                  Collapse({ Amount(n) : n \in { m \in Fragments(c) :
                                 m.strike # "true" /\ PerUnitFragment(m) } }),
              units           |->
                  Collapse({ AfterDivider(n) : n \in { m \in Fragments(c) :
                                 m.strike # "true" /\ PerUnitFragment(m) } }),
              prices_main     |->
                  Collapse({ Amount(n) : n \in { m \in Fragments(c) :
                                 m.strike # "true" /\ ~PerUnitFragment(m) } }) ]

Zero == [ num |-> 0, den |-> 1 ]

\* The value of a price key of a record has the amount zero in it
HoldsZero(value) ==
    \/ value = [ one |-> Zero ]
    \/ "joined" \in DOMAIN value /\ Zero \in value.joined

\* C15: no record has a zero amount among its main prices or its per-unit
\* prices, whatever text the fragment has around the amount.
C15_ZeroNeverKept ==
    \A i \in DOMAIN product_dict_list :
        /\ ~HoldsZero(product_dict_list[i].prices_main)
        /\ ~HoldsZero(product_dict_list[i].prices_per_unit)

\* The container the i-th record was made from
ContainerOf(i) == ProductsOn(html_pages[origin[i].page])[origin[i].index]

\* The text the k-th title candidate yields in a container: the text of the
\* first element it matches, without the surrounding blanks; empty when it
\* matches nothing
Yield(c, k) ==
    IF c.select[title_selectors[k]] = <<>> THEN <<>>
    ELSE Strip(c.select[title_selectors[k]][1])

Yielding(c) == { k \in DOMAIN title_selectors : Yield(c, k) # <<>> }

\* C14: the title of every record is the text of the first title candidate,
\* in the order of the candidates, that yields non-empty text in the
\* container of the record, and 'Title not found' when none does.
C14_FirstNonEmptyTitle ==
    \A i \in DOMAIN product_dict_list :
        product_dict_list[i].title =
            IF Yielding(ContainerOf(i)) = {} THEN TitleNotFound
            ELSE Yield(ContainerOf(i),
                       CHOOSE k \in Yielding(ContainerOf(i)) :
                           \A m \in Yielding(ContainerOf(i)) : k <= m)

\* C14 witness: a record whose container has an element with empty text
\* for the first candidate and "Widget Pro" for the second, and a record
\* of a container no candidate matches.
C14_Witness ==
    /\ \E i \in DOMAIN product_dict_list :
          /\ ContainerOf(i).select[title_selectors[1]] = << <<>> >>
          /\ product_dict_list[i].title = << "W", "i", "d", "g", "e", "t", " ", "P", "r", "o" >>
    /\ \E i \in DOMAIN product_dict_list :
          /\ \A k \in DOMAIN title_selectors : ContainerOf(i).select[title_selectors[k]] = <<>>
          /\ product_dict_list[i].title = TitleNotFound

\* C16: every fetch starts with the attempt counter at zero, whatever the
\* fetches before it used; the response of an attempt with status 200 and
\* without block phrase is what the fetch returns (it is the page stored,
\* every attempt of the fetch before it failed and was retried), in the
\* same step, and no GET follows it in this fetch.
C16_FirstValidResponse ==
    /\ [][(pc = "while" /\ pc' = "fetch") => trials' = 0]_vars
    /\ [][(pc = "fetch" /\ trials' = trials + 1 /\ attempt'.outcome = "valid")
             => /\ pc' = "extract"
                /\ Len(html_pages') = Len(html_pages) + 1
                /\ fetched'[Len(html_pages')] = attempt'.url]_vars
    /\ [][pc = "extract" => (trials' = trials /\ attempt' = attempt)]_vars
    /\ [](pc = "extract"
            => /\ attempt.outcome = "valid"
               /\ trials \in 1.._MAX_TRIAL_REQUESTS
               /\ rotations = trials - 1
               /\ ~HasBlockPhrase(html_pages[Len(html_pages)]))
    /\ [](pc = "fetch" => (trials = rotations /\ trials \in 0.._MAX_TRIAL_REQUESTS))

\* C16 witness: on a fresh client the second page of a call came with the
\* fifth attempt of its fetch, after the fetch of the first page had failed
\* attempts of its own (an odd number of them, by the identity in use).
C16_Witness ==
    /\ calls = 1 /\ pc = "extract"
    /\ Len(html_pages) = 2
    /\ trials = _MAX_TRIAL_REQUESTS
    /\ current_user_agent_index = 1

\* The one selector the next-page link is looked for with
FixedNextSelector == "ul.a-pagination > li.a-last > a[href]"

\* C17: whichever schema gave the containers of a page, and also when none
\* did, the URL the loop goes on with after the page is the first link the
\* next-page selector of schema 'mobile' finds on the page, joined to the
\* base URL, and None when it finds no link, also when the next-page
\* selector of another schema does find one.
C17_FixedNextSelector ==
    [][(pc = "extract" /\ pc' = "while")
          => /\ FixedNextSelector = CSS_SELECTORS.mobile.next_page_url
             /\ LastSoup.links[FixedNextSelector] # <<>>
                   => search_url' = urljoin(base_url, LastSoup.links[FixedNextSelector][1])
             /\ LastSoup.links[FixedNextSelector] = <<>>
                   => search_url' = NoneUrl]_vars

\* C17 witness: a page whose containers came from schema 'desktop' and
\* whose pagination control only 'a#pagnNextLink' matches has been
\* extracted, and the loop has no next page.
C17_Witness ==
    /\ pc = "while" /\ search_url = NoneUrl
    /\ Len(html_pages) > entry.pages
    /\ LastSoup.links[CSS_SELECTORS.desktop.next_page_url] # <<>>
    /\ LastSoup.links[CSS_SELECTORS.mobile.next_page_url] = <<>>
    /\ Len(origin) > 0
    /\ origin[Len(origin)].page = Len(html_pages)
    /\ origin[Len(origin)].schema = "desktop"

\* A step that is an attempt of the fetch in progress
IsAttempt == pc = "fetch" /\ trials' = trials + 1

\* C18: the index of the identity and the User-Agent header change only in
\* a step that is a failed attempt of a fetch; an attempt that succeeds
\* leaves both as they are; every failed attempt moves the index one
\* position on in the cyclic list; and no other step (the entry of a call,
\* the loop test and the entry of a fetch, the extraction of a page, the
\* end of a fetch that gave up) changes or resets it.
C18_RotationOnlyOnFailure ==
    /\ [][(current_user_agent_index' # current_user_agent_index
             \/ headers'.User_Agent # headers.User_Agent)
             => (IsAttempt /\ attempt'.outcome \in TransientFailures)]_vars
    /\ [][(IsAttempt /\ attempt'.outcome = "valid")
             => /\ current_user_agent_index' = current_user_agent_index
                /\ headers'.User_Agent = headers.User_Agent]_vars
    /\ [][(IsAttempt /\ attempt'.outcome \in TransientFailures)
             => current_user_agent_index' =
                   (current_user_agent_index + 1) % Len(_USER_AGENT_LIST)]_vars
    /\ [][~IsAttempt => current_user_agent_index' = current_user_agent_index]_vars

UserAgentPool == { _USER_AGENT_LIST[k] : k \in DOMAIN _USER_AGENT_LIST }

\* C19: in every state the index is a position of _USER_AGENT_LIST and the
\* User-Agent header is the identity at that position; every GET is sent
\* with the header of the moment, an identity of the list; and an attempt
\* that follows another attempt of the same fetch is sent with another
\* identity than that one.
C19_IdentityFromPool ==
    /\ [](/\ current_user_agent_index \in 0..(Len(_USER_AGENT_LIST) - 1)
          /\ headers.User_Agent = _USER_AGENT_LIST[current_user_agent_index + 1])
    /\ [][IsAttempt
             => /\ attempt'.user_agent = headers.User_Agent
                /\ attempt'.user_agent \in UserAgentPool]_vars
    /\ [][(IsAttempt /\ trials >= 1)
             => attempt'.user_agent # attempt.user_agent]_vars

\* C19 witness: the third attempt of a fetch is about to be sent, the
\* second having gone out with the second identity of the list and the
\* index being back at the first.
C19_Witness ==
    /\ pc = "fetch" /\ trials = 2
    /\ attempt.user_agent = _USER_AGENT_LIST[2]
    /\ current_user_agent_index = 0
    /\ headers.User_Agent = _USER_AGENT_LIST[1]

IsPrefix(a, b) == Len(a) <= Len(b) /\ SubSeq(b, 1, Len(a)) = a

\* C20: every step leaves the list of records a prefix of what it becomes,
\* over all the calls made on the client; within a call no step adds a
\* record once the list has max_product_nb records, so that the list is
\* never longer than the larger of max_product_nb and its length when the
\* call began; and a call that finds the list already that long returns at
\* the loop test, without a fetch, with the records it found.
C20_RecordsAppendOnly ==
    /\ [][IsPrefix(product_dict_list, product_dict_list')]_vars
    /\ [][(calls' = calls /\ Len(product_dict_list) >= max_product_nb)
             => product_dict_list' = product_dict_list]_vars
    /\ [](calls >= 1
            => Len(product_dict_list) <=
                  IF max_product_nb >= entry.products THEN max_product_nb
                  ELSE entry.products)
    /\ [][(pc = "while" /\ Len(product_dict_list) >= max_product_nb)
             => /\ pc' = "returned"
                /\ product_dict_list' = product_dict_list
                /\ html_pages' = html_pages
                /\ attempt' = attempt]_vars

\* C20 witness: a second call with a target the list had already reached
\* has returned the records of the first call without a fetch.
C20_Witness ==
    /\ calls = 2 /\ pc = "returned"
    /\ entry.products > 0
    /\ entry.products >= max_product_nb
    /\ Len(product_dict_list) = entry.products
    /\ Len(html_pages) = entry.pages
    /\ attempt = NoAttempt

====
